---------------------------- MODULE Spec2Model ----------------------------
(***************************************************************************)
(* Model of escapeexplorer/main.py: the terse-listing decoder              *)
(* (read_phase1), the composite-name splitter (parse_name) and the         *)
(* listing merger (get_rooms).                                             *)
(*                                                                         *)
(* A Python str is a sequence of one-code-point strings.  Code points      *)
(* outside ASCII are written by their number ("U+1F195" is the novelty     *)
(* marker); a regional-indicator symbol is written "RI-G", so the flag of  *)
(* Great Britain is the two code points "RI-G", "RI-B", as in the source.  *)
(***************************************************************************)
EXTENDS Integers, Sequences, FiniteSets, TLC

VARIABLES
    pc,            \* position of the run; an exception leaves it where it was raised
    line,          \* parse_name: its argument
    shape,         \* parse_name: the parts the argument was composed from
    parsed,        \* parse_name: its result
    segments,      \* read_phase1: text.split("<br/>")
    phase1,        \* read_phase1: the list built; get_rooms: its first argument
    phase2,        \* get_rooms: its second argument
    rooms,         \* get_rooms: the list built
    company_name,  \* get_rooms: the local that find_room reads from its closure
    idx,           \* index of the loop under way
    rank_writes,   \* get_rooms: per room, how often line 230 assigned its rank
    err,           \* the exception that ended the run, NoError while there is none
    ret            \* the value returned

vars == <<pc, line, shape, parsed, segments, phase1, phase2, rooms,
          company_name, idx, rank_writes, err, ret>>

---------------------------------------------------------------------------
(* Python values and str operations, as the source uses them.              *)

None == <<"None-object">>
NoReturn == <<"no-return">>
NoError == [type |-> "none", msg |-> <<>>]

MinOf(S) == CHOOSE i \in S : \A j \in S : i <= j
MaxOf(S) == CHOOSE i \in S : \A j \in S : i >= j

\* sub in s
Contains(s, sub) ==
    \E i \in 0..(Len(s) - Len(sub)) : SubSeq(s, i + 1, i + Len(sub)) = sub

\* s.find(sub) + 1: the first position of sub in s, 0 when there is none
Find(s, sub) ==
    LET I == {i \in 1..(Len(s) - Len(sub) + 1) : SubSeq(s, i, i + Len(sub) - 1) = sub}
    IN  IF I = {} THEN 0 ELSE MinOf(I)

\* s.split(sep), sep not empty
RECURSIVE Split(_, _)
Split(s, sep) ==
    LET i == Find(s, sep)
    IN  IF i = 0 THEN <<s>>
        ELSE <<SubSeq(s, 1, i - 1)>> \o Split(SubSeq(s, i + Len(sep), Len(s)), sep)

\* sep.join(parts)
RECURSIVE Join(_, _)
Join(sep, parts) ==
    IF parts = <<>> THEN <<>>
    ELSE IF Len(parts) = 1 THEN parts[1]
    ELSE parts[1] \o sep \o Join(sep, Tail(parts))

\* s.replace("", new): new before every code point and at the end
RECURSIVE Intersperse(_, _)
Intersperse(s, new) ==
    IF s = <<>> THEN new ELSE new \o <<Head(s)>> \o Intersperse(Tail(s), new)

\* s.replace(old, new): every occurrence, left to right, not overlapping
RECURSIVE Replace(_, _, _)
Replace(s, old, new) ==
    IF old = <<>> THEN Intersperse(s, new)
    ELSE LET i == Find(s, old)
         IN  IF i = 0 THEN s
             ELSE SubSeq(s, 1, i - 1) \o new
                    \o Replace(SubSeq(s, i + Len(old), Len(s)), old, new)

\* s.lstrip(chars), s.rstrip(chars), s.strip(chars): chars is a set of code points
LStrip(s, chars) ==
    LET I == {i \in 1..Len(s) : s[i] \notin chars}
    IN  IF I = {} THEN <<>> ELSE SubSeq(s, MinOf(I), Len(s))
RStrip(s, chars) ==
    LET I == {i \in 1..Len(s) : s[i] \notin chars}
    IN  IF I = {} THEN <<>> ELSE SubSeq(s, 1, MaxOf(I))
Strip(s, chars) == RStrip(LStrip(s, chars), chars)

\* xs[:-n] and xs[-n]
DropLast(xs, n) == SubSeq(xs, 1, Len(xs) - n)
FromEnd(xs, n) == xs[Len(xs) - n + 1]

---------------------------------------------------------------------------
(* parse_name                                                              *)

NoveltyMarker == <<"U+1F195">>
WuppertalLiteral == <<"-", " ", "E", "s", "c", "a", "p", "e", " ", "S", "t", "o", "r", "i",
                      "e", "s", " ", "-", " ", "L", "i", "v", "e", " ", "E", "s", "c", "a",
                      "p", "e", " ", "G", "a", "m", "e", " ", "W", "u", "p", "p", "e", "r",
                      "t", "a", "l">>
PetraLiteral == <<"P", "e", "t", "r", "a", " ", "-", " ", "T", "h", "e", " ", "L", "o",
                  "s", "t", " ", "K", "i", "n", "g", "d", "o", "m">>
PetraOriginal == <<"P", "e", "t", "r", "a", " ", "-", " ", "E", "l", " ", "r", "e", "i",
                   "n", "o", " ", "p", "e", "r", "d", "i", "d", "o">>

\* line 256: line.replace(room_name_part, "")
RemoveNamePart(ln, room_name_part) == Replace(ln, room_name_part, <<>>)

\* line 245: room_name_part.split("[")[0]
EnglishOf(room_name_part) == Split(room_name_part, <<"[">>)[1]

parse_name(name) ==
    LET ln == Replace(Replace(name, <<"&", "a", "m", "p", ";">>, <<"&">>), NoveltyMarker, <<>>)
        room_name_part ==
            IF Contains(ln, WuppertalLiteral)
            THEN Split(ln, <<" ", "-", " ", "E", "s", "c", "a", "p", "e", " ", "S", "t",
                             "o", "r", "i", "e", "s">>)[1]
            ELSE Join(<<" ", "-", " ">>, DropLast(Split(ln, <<" ", "-", " ">>), 1))
        isPetra == Contains(ln, PetraLiteral)
        room_name_english ==
            IF isPetra THEN PetraLiteral ELSE EnglishOf(room_name_part)
        room_name_original ==
            IF isPetra THEN PetraOriginal
            ELSE IF Contains(room_name_part, <<"[">>)
                 THEN Replace(Split(room_name_part, <<"[">>)[2], <<"]">>, <<>>)
                 ELSE None
        room_location_part == LStrip(RemoveNamePart(ln, room_name_part), {" ", "-"})
        location == RStrip(FromEnd(Split(room_location_part, <<"(">>), 1), {")"})
        company == Strip(Replace(room_location_part, <<"(">> \o location \o <<")">>, <<>>),
                         {" "})
    IN  [room_name_english |-> room_name_english,
         room_name_original |-> room_name_original,
         company_name |-> company,
         location |-> location]

---------------------------------------------------------------------------
(* Inputs of parse_name: composite names of the documented shape           *)
(* EnglishName[ [OriginalName]] - Organizer (Location).                    *)

WuppertalOrganizer == <<"E", "s", "c", "a", "p", "e", " ", "S", "t", "o", "r", "i", "e",
                        "s", " ", "-", " ", "L", "i", "v", "e", " ", "E", "s", "c", "a",
                        "p", "e", " ", "G", "a", "m", "e", " ", "W", "u", "p", "p", "e",
                        "r", "t", "a", "l">>
FooBar == <<"F", "o", "o", " ", "B", "a", "r">>
FooBaz == <<"F", "o", "o", " ", "B", "a", "z">>
AcmeCo == <<"A", "c", "m", "e", " ", "C", "o">>
Springfield == <<"S", "p", "r", "i", "n", "g", "f", "i", "e", "l", "d">>

PlainNames ==
    {FooBar,
     <<"T", "h", "e", " ", "C", "a", "b", "i", "n">>,
     <<"E", "s", "c", "a", "p", "e">>,
     <<"L", "i", "v", "e">>,
     <<"R", "o", "o", "m", " ", "1", "3">>}
NamePool ==
    PlainNames \cup {<<"A", " ", "&", "a", "m", "p", ";", " ", "B">>, PetraLiteral,
                     NoveltyMarker \o <<" ", "S", "p", "o", "o", "k", "y", " ", "R", "o",
                                        "o", "m">>}
OriginalPool == {None, FooBaz}
OrganizerPool == {AcmeCo, WuppertalOrganizer, <<"O", "r", "g">>}
LocationPool == {Springfield, <<"W", "u", "p", "p", "e", "r", "t", "a", "l", ",", " ", "G",
                                "e", "r", "m", "a", "n", "y">>, <<"T", "o", "w", "n", "s",
                                        "v", "i", "l", "l", "e">>}

Shapes == [name : NamePool, original : OriginalPool,
           organizer : OrganizerPool, location : LocationPool]

Compose(s) ==
    s.name
      \o (IF s.original = None THEN <<>> ELSE <<" ", "[">> \o s.original \o <<"]">>)
      \o <<" ", "-", " ">> \o s.organizer \o <<" ", "(">> \o s.location \o <<")">>

InitName ==
    /\ pc = "parse_name"
    /\ shape \in Shapes
    /\ line = Compose(shape)
    /\ parsed = None
    /\ segments = <<>> /\ phase1 = <<>> /\ phase2 = <<>> /\ rooms = <<>>
    /\ company_name = None /\ idx = 0 /\ rank_writes = <<>>
    /\ err = NoError /\ ret = NoReturn

\* parse_name(line), lines 235-260
ParseName ==
    /\ pc = "parse_name"
    /\ parsed' = parse_name(line)
    /\ pc' = "parsed"
    /\ UNCHANGED <<line, shape, segments, phase1, phase2, rooms, company_name,
                   idx, rank_writes, err, ret>>

NextName == ParseName
SpecName == InitName /\ [][NextName]_vars

---------------------------------------------------------------------------
(* read_phase1                                                             *)

\* _strip, lines 63-71
strip_segment(s) ==
    LET opened == Replace(Strip(s, {"\n"}), <<"<", "s", "t", "r", "o", "n", "g", ">">>, <<>>)
        bare == Replace(opened, <<"<", "/", "s", "t", "r", "o", "n", "g", ">">>, <<>>)
    IN  FromEnd(Split(bare, <<"\n">>), 1)

Raise == "raise"

TerrorMarkers == {"U+2600", "U+1F47B", "U+1F526", "U+1F631"}

\* parse_terror_level, lines 73-83
parse_terror_level(ln) ==
    IF Contains(ln, <<"U+2600">>) THEN "None"
    ELSE IF Contains(ln, <<"U+1F47B">>) THEN "Spooky"
    ELSE IF Contains(ln, <<"U+1F526">>) THEN "Passively scary"
    ELSE IF Contains(ln, <<"U+1F631">>) THEN "Actively scary"
    ELSE Raise

\* the message of line 83
TerrorLevelMessage(ln) == <<"C", "o", "u", "l", "d", "n", "'", "t", " ", "f", "i", "n",
                            "d", " ", "a", " ", "t", "e", "r", "r", "o", "r", " ", "l",
                            "e", "v", "e", "l", " ", "i", "n", " ", "'">> \o ln \o <<"'">>
IndexMessage == <<"l", "i", "s", "t", " ", "i", "n", "d", "e", "x", " ", "o", "u", "t",
                  " ", "o", "f", " ", "r", "a", "n", "g", "e">>

\* the markers of parse_languages, lines 85-143, in the order they are tested
LanguageMarkers == <<
    <<<<"RI-G", "RI-B">>, "English">>,    <<<<"E", "U">>, "Basque">>,
    <<<<"RI-B", "RI-G">>, "Bulgarian">>,  <<<<"C", "A">>, "Catalan">>,
    <<<<"RI-H", "RI-R">>, "Croatian">>,   <<<<"RI-C", "RI-Z">>, "Czech">>,
    <<<<"RI-D", "RI-K">>, "Danish">>,     <<<<"RI-N", "RI-L">>, "Dutch">>,
    <<<<"RI-E", "RI-E">>, "Estonian">>,   <<<<"RI-F", "RI-I">>, "Finnish">>,
    <<<<"RI-F", "RI-R">>, "French">>,     <<<<"RI-D", "RI-E">>, "German">>,
    <<<<"RI-G", "RI-R">>, "Greek">>,      <<<<"RI-I", "RI-L">>, "Hebrew">>,
    <<<<"RI-H", "RI-U">>, "Hungarian">>,  <<<<"RI-I", "RI-T">>, "Italian">>,
    <<<<"RI-J", "RI-P">>, "Japanese">>,   <<<<"RI-L", "RI-V">>, "Latvian">>,
    <<<<"RI-L", "RI-T">>, "Lithuanian">>, <<<<"RI-P", "RI-L">>, "Polish">>,
    <<<<"RI-P", "RI-T">>, "Portuguese">>, <<<<"RI-R", "RI-O">>, "Romanian">>,
    <<<<"RI-R", "RI-U">>, "Russian">>,    <<<<"RI-R", "RI-S">>, "Serbian">>,
    <<<<"RI-S", "RI-K">>, "Slovak">>,     <<<<"RI-S", "RI-I">>, "Slovenian">>,
    <<<<"RI-E", "RI-S">>, "Spanish">>,    <<<<"RI-S", "RI-E">>, "Swedish">>,
    <<<<"RI-U", "RI-A">>, "Ukrainian">> >>

RECURSIVE LanguagesFrom(_, _)
LanguagesFrom(ln, k) ==
    IF k > Len(LanguageMarkers) THEN <<>>
    ELSE (IF Contains(ln, LanguageMarkers[k][1]) THEN <<LanguageMarkers[k][2]>> ELSE <<>>)
           \o LanguagesFrom(ln, k + 1)

\* list(parse_languages(line))
parse_languages(ln) == LanguagesFrom(ln, 1)

\* line 150: line.split(" ")[-2].strip("()")
NominationsOf_last(ln) == Strip(FromEnd(Split(ln, <<" ">>), 1), {"(", ")"})
NominationsOf(ln) == Strip(FromEnd(Split(ln, <<" ">>), 2), {"(", ")"})

\* Phase1Room(...), lines 148-154, for a line on which no argument raises
Phase1Room(ln) ==
    [name |-> Join(<<" ">>, DropLast(Split(ln, <<" ">>), 2)),
     nominations |-> NominationsOf(ln),
     new |-> Contains(ln, NoveltyMarker),
     terror_level |-> parse_terror_level(ln),
     languages |-> parse_languages(ln)]

\* the exception the arguments of Phase1Room raise, in the order they are
\* evaluated: line 150 indexes [-2] before line 152 looks for the rating
DecodeError(ln) ==
    IF Len(Split(ln, <<" ">>)) < 2 THEN [type |-> "IndexError", msg |-> IndexMessage]
    ELSE IF parse_terror_level(ln) = Raise
         THEN [type |-> "AttributeError", msg |-> TerrorLevelMessage(ln)]
         ELSE NoError

\* line 146: [_strip(s) for s in text.split("<br/>")[:-1]]
LinesOf(segs) == [k \in 1..(Len(segs) - 1) |-> strip_segment(segs[k])]

\* one iteration of the loop of lines 146-155
DecodeLine ==
    /\ pc = "read_phase1" /\ err = NoError
    /\ idx <= Len(LinesOf(segments))
    /\ LET ln == LinesOf(segments)[idx]
           e == DecodeError(ln)
       IN  IF e # NoError
           THEN /\ err' = e
                /\ UNCHANGED <<phase1, idx>>
           ELSE /\ phase1' = Append(phase1, Phase1Room(ln))
                /\ idx' = idx + 1
                /\ UNCHANGED err
    /\ UNCHANGED <<pc, line, shape, parsed, segments, phase2, rooms, company_name,
                   rank_writes, ret>>

\* line 156 and lines 267-269: read_phase1 returns and get_rooms is entered
ReturnPhase1 ==
    /\ pc = "read_phase1" /\ err = NoError
    /\ idx = Len(LinesOf(segments)) + 1
    /\ pc' = "build"
    /\ idx' = 1
    /\ UNCHANGED <<line, shape, parsed, segments, phase1, phase2, rooms,
                   company_name, rank_writes, err, ret>>

---------------------------------------------------------------------------
(* get_rooms                                                               *)

NotRanked == <<"N", "o", "t", " ", "r", "a", "n", "k", "e", "d">>

\* EscapeRoom(...), lines 191-200
EscapeRoom(room, parts) ==
    [room_name_english |-> parts.room_name_english,
     room_name_original |-> parts.room_name_original,
     company_name |-> parts.company_name,
     location |-> parts.location,
     languages |-> room.languages,
     terror_level |-> room.terror_level,
     phase1_nominations |-> room.nominations,
     phase2_rank |-> NotRanked]

\* the condition of line 207; company is the company_name of get_rooms, which
\* find_room reads from its closure (its own parameter is named copmany_name)
Matches_name_only(r, english_name, company) == r.room_name_english = english_name
Matches(r, english_name, company) ==
    r.room_name_english = english_name /\ r.company_name = company

\* room_candidates, lines 204-208, as the set of their positions in rooms
Candidates(rs, english_name, company) ==
    {k \in 1..Len(rs) : Matches(rs[k], english_name, company)}

\* the assertion of lines 209-211
ExactlyOne_lenient(cands) == Cardinality(cands) >= 1
ExactlyOne(cands) == Cardinality(cands) = 1

\* str(n) of a natural number
RECURSIVE Str(_)
Str(n) ==
    LET d == <<"0", "1", "2", "3", "4", "5", "6", "7", "8", "9">>
    IN  IF n < 10 THEN <<d[n + 1]>> ELSE Str(n \div 10) \o <<d[(n % 10) + 1]>>

\* the message of line 211
AssertMessage(n, english_name, company) ==
    <<"F", "o", "u", "n", "d", " ">> \o Str(n) \o <<" ", "w", "i", "t", "h", " ", "n", "a",
                                        "m", "e", " ">> \o english_name
      \o <<" ", "a", "n", "d", " ", "c", "o", "m", "p", "a", "n", "y", " ">> \o company

\* xs.pop(k)
RemoveAt(xs, k) == SubSeq(xs, 1, k - 1) \o SubSeq(xs, k + 1, Len(xs))

\* lines 216-220: the position rooms.index finds for the first room named
\* PetraLiteral; 0 when the list of line 218 is empty
PetraIndex_last(rs) ==
    LET P == {k \in 1..Len(rs) : rs[k].room_name_english = PetraLiteral}
    IN  IF P = {} THEN 0 ELSE MaxOf(P)
PetraIndex(rs) ==
    LET P == {k \in 1..Len(rs) : rs[k].room_name_english = PetraLiteral}
    IN  IF P = {} THEN 0 ELSE MinOf({j \in 1..Len(rs) : rs[j] = rs[MinOf(P)]})

\* line 230: room_ref.phase2_rank = room.rank
SetRank_lost(rs, k, rank) == rs
SetRank_clobber(rs, k, rank) ==
    [rs EXCEPT ![k].phase2_rank = rank, ![k].phase1_nominations = rank]
SetRank(rs, k, rank) == [rs EXCEPT ![k].phase2_rank = rank]

\* one iteration of the loop of lines 186-201
BuildRoom ==
    /\ pc = "build" /\ err = NoError
    /\ idx <= Len(phase1)
    /\ LET parts == parse_name(phase1[idx].name)
       IN  /\ company_name' = parts.company_name
           /\ rooms' = Append(rooms, EscapeRoom(phase1[idx], parts))
    /\ rank_writes' = Append(rank_writes, 0)
    /\ idx' = idx + 1
    /\ UNCHANGED <<pc, line, shape, parsed, segments, phase1, phase2, err, ret>>

\* lines 216-220
RemovePetra ==
    /\ pc = "build" /\ err = NoError
    /\ idx = Len(phase1) + 1
    /\ LET k == PetraIndex(rooms)
       IN  IF k = 0
           THEN /\ err' = [type |-> "IndexError", msg |-> IndexMessage]
                /\ UNCHANGED <<pc, rooms, rank_writes, idx>>
           ELSE /\ rooms' = RemoveAt(rooms, k)
                /\ rank_writes' = RemoveAt(rank_writes, k)
                /\ pc' = "match"
                /\ idx' = 1
                /\ UNCHANGED err
    /\ UNCHANGED <<line, shape, parsed, segments, phase1, phase2, company_name, ret>>

\* one iteration of the loop of lines 222-230
MatchRow ==
    /\ pc = "match" /\ err = NoError
    /\ idx <= Len(phase2)
    /\ LET parts == parse_name(phase2[idx].name)
           cands == Candidates(rooms, parts.room_name_english, parts.company_name)
       IN  /\ company_name' = parts.company_name
           /\ IF ExactlyOne(cands)
              THEN /\ rooms' = SetRank(rooms, MinOf(cands), phase2[idx].rank)
                   /\ rank_writes' = [rank_writes EXCEPT ![MinOf(cands)] = @ + 1]
                   /\ idx' = idx + 1
                   /\ UNCHANGED err
              ELSE /\ err' = [type |-> "AssertionError",
                              msg |-> AssertMessage(Cardinality(cands),
                                                    parts.room_name_english,
                                                    parts.company_name)]
                   /\ UNCHANGED <<rooms, rank_writes, idx>>
    /\ UNCHANGED <<pc, line, shape, parsed, segments, phase1, phase2, ret>>

\* line 232
ReturnRooms ==
    /\ pc = "match" /\ err = NoError
    /\ idx = Len(phase2) + 1
    /\ pc' = "returned"
    /\ ret' = rooms
    /\ UNCHANGED <<line, shape, parsed, segments, phase1, phase2, rooms,
                   company_name, idx, rank_writes, err>>

---------------------------------------------------------------------------
(* Inputs of read_phase1 and get_rooms.                                    *)

MaxLines == 2
MaxPhase1 == 3
MaxPhase2 == 2

SeqUpTo(S, n) == UNION {[1..k -> S] : k \in 0..n}

\* the pieces of text.split("<br/>"); the last one closes the paragraph
SegPetraA ==
    <<"<", "p", ">", "P", "e", "t", "r", "a", " ", "-", " ", "T", "h", "e", " ", "L", "o",
      "s", "t", " ", "K", "i", "n", "g", "d", "o", "m", " ", "[", "P", "e", "t", "r", "a",
      " ", "-", " ", "E", "l", " ", "r", "e", "i", "n", "o", " ", "p", "e", "r", "d", "i",
      "d", "o", "]", " ", "-", " ", "M", " ", "(", "B", ")", " ", "(", "5", ")", " ",
      "U+1F526", "RI-E", "RI-S">>
SegPetraB ==
    <<"\n", "P", "e", "t", "r", "a", " ", "-", " ", "T", "h", "e", " ", "L", "o", "s", "t",
      " ", "K", "i", "n", "g", "d", "o", "m", " ", "[", "P", "e", "t", "r", "a", " ", "-",
      " ", "T", "h", "e", " ", "L", "o", "s", "t", " ", "K", "i", "n", "g", "d", "o", "m",
      "]", " ", "-", " ", "M", " ", "(", "B", ")", " ", "(", "3", ")", " ", "U+1F526",
      "RI-G", "RI-B">>
SegAX == <<"\n", "A", " ", "-", " ", "X", " ", "(", "L", ")", " ", "(", "4", ")", " ",
           "U+2600", "RI-G", "RI-B">>
SegAY == <<"\n", "A", " ", "-", " ", "Y", " ", "(", "L", ")", " ", "(", "2", ")", " ",
           "U+1F47B", "RI-G", "RI-B", "RI-F", "RI-R">>
SegFirst == <<"<", "p", ">", "<", "s", "t", "r", "o", "n", "g", ">", "R", "o", "o", "m",
              "s", "<", "/", "s", "t", "r", "o", "n", "g", ">", "\n", "C", " ", "-", " ",
              "Z", " ", "(", "N", ")", " ", "(", "9", ")", " ", "U+1F631", "E", "U">>
SegScenario == <<"\n", "U+1F195", " ", "S", "p", "o", "o", "k", "y", " ", "R", "o", "o",
                 "m", " ", "(", "1", "2", ")", " ", "U+1F47B", " ", "RI-G", "RI-B", "RI-F",
                 "RI-R", " ", "-", " ", "O", "r", "g", " ", "(", "T", "o", "w", "n", "s",
                 "v", "i", "l", "l", "e", ")">>
SegScenarioLayout == <<"\n", "U+1F195", " ", "S", "p", "o", "o", "k", "y", " ", "R", "o",
                       "o", "m", " ", "-", " ", "O", "r", "g", " ", "(", "T", "o", "w",
                       "n", "s", "v", "i", "l", "l", "e", ")", " ", "(", "1", "2", ")",
                       " ", "U+1F47B", "RI-G", "RI-B", "RI-F", "RI-R">>
SegNoRating == <<"\n", "D", " ", "-", " ", "W", " ", "(", "K", ")", " ", "(", "1", ")",
                 " ", "RI-I", "RI-T">>
SegOneToken == <<"\n", "T", "B", "A">>
SegTail == <<"\n", "<", "/", "p", ">">>

SegmentPool == {SegPetraA, SegPetraB, SegAX, SegAY, SegFirst, SegScenario,
                SegScenarioLayout, SegNoRating, SegOneToken}

\* Phase2Room(raw_data[0], ..., raw_data[7]), lines 170-179
Phase2Room(rank, name) ==
    [rank |-> rank, name |-> name, score |-> <<"9", ".", "1">>, players |-> <<"4", "0">>,
     coverage |-> <<"8", "0", "%">>, comps |-> <<"1", "2">>, abstains |-> <<"0">>,
     last_years_rank |-> None]

RowPetra == Phase2Room(<<"1">>, <<"P", "e", "t", "r", "a", " ", "-", " ", "T", "h", "e",
                                  " ", "L", "o", "s", "t", " ", "K", "i", "n", "g", "d",
                                  "o", "m", " ", "-", " ", "M", " ", "(", "B", ")">>)
RowAX == Phase2Room(<<"2">>, <<"A", " ", "-", " ", "X", " ", "(", "L", ")">>)
RowAY == Phase2Room(<<"3">>, <<"A", " ", "-", " ", "Y", " ", "(", "L", ")">>)
RowAXAgain == Phase2Room(<<"4">>, <<"A", " ", "-", " ", "X", " ", "(", "L", ")">>)

Phase1Pool == {Phase1Room(strip_segment(s)) : s \in {SegPetraA, SegPetraB, SegAX, SegAY}}
Phase2Pool == {RowPetra, RowAX, RowAY, RowAXAgain}

\* get_rooms(phase1, phase2) is entered
Init ==
    /\ pc = "build"
    /\ phase1 \in SeqUpTo(Phase1Pool, MaxPhase1)
    /\ phase2 \in SeqUpTo(Phase2Pool, MaxPhase2)
    /\ rooms = <<>> /\ rank_writes = <<>> /\ idx = 1
    /\ company_name = None
    /\ line = <<>> /\ shape = None /\ parsed = None /\ segments = <<>>
    /\ err = NoError /\ ret = NoReturn

Next == BuildRoom \/ RemovePetra \/ MatchRow \/ ReturnRooms
Spec == Init /\ [][Next]_vars

\* import_2022, lines 263-269: read_phase1, then get_rooms on what it returns
InitImport ==
    /\ pc = "read_phase1"
    /\ \E s \in SeqUpTo(SegmentPool, MaxLines) : segments = s \o <<SegTail>>
    /\ phase2 \in SeqUpTo({RowPetra}, 1)
    /\ phase1 = <<>> /\ rooms = <<>> /\ rank_writes = <<>> /\ idx = 1
    /\ company_name = None
    /\ line = <<>> /\ shape = None /\ parsed = None
    /\ err = NoError /\ ret = NoReturn

NextImport ==
    DecodeLine \/ ReturnPhase1 \/ BuildRoom \/ RemovePetra \/ MatchRow \/ ReturnRooms
SpecImport == InitImport /\ [][NextImport]_vars

---------------------------------------------------------------------------
(* Vocabulary of the claims about get_rooms.                               *)

PairOf(parts) == <<parts.room_name_english, parts.company_name>>

\* parse_name on every name get_rooms can be given, evaluated once
NamesGiven == {r.name : r \in Phase1Pool} \cup {r.name : r \in Phase2Pool}
                \cup {Phase1Room(strip_segment(s)).name : s \in
                        {g \in SegmentPool : DecodeError(strip_segment(g)) = NoError}}
PartsOf == [n \in NamesGiven |-> parse_name(n)]

\* the pair parsed from tabular row j, and the positions of the entries of rs it equals
RowPair(j) == PairOf(PartsOf[phase2[j].name])
MatchesOfRow(rs, j) == {k \in 1..Len(rs) : PairOf(rs[k]) = RowPair(j)}
\* the tabular rows whose parsed pair equals the pair of entry r, among rows 1..n
RowsOfEntry(r, n) == {j \in 1..n : RowPair(j) = PairOf(r)}

Raised == err # NoError
InRowLoop == pc = "match" /\ ~Raised /\ idx <= Len(phase2)
\* the terse entries that parse to the duplicate display name
PetraEntries ==
    {k \in 1..Len(phase1) : PartsOf[phase1[k].name].room_name_english = PetraLiteral}
\* the entries as the first loop creates them
Created == [k \in 1..Len(phase1) |-> EscapeRoom(phase1[k], PartsOf[phase1[k].name])]
Unranked(rs) == [k \in 1..Len(rs) |-> [rs[k] EXCEPT !.phase2_rank = NotRanked]]

\* C1: a tabular row whose parsed pair equals the pair of no merged entry, or of
\* more than one, ends the run with an assertion failure in that row's iteration
\* and nothing is returned; a run that returns has taken every row, and every
\* row it took matched exactly one entry.
C1_RowMatchesOneOrAborts ==
    /\ [][(InRowLoop /\ Cardinality(MatchesOfRow(rooms, idx)) # 1)
            => (/\ err'.type = "AssertionError"
                /\ pc' = "match" /\ idx' = idx
                /\ ret' = NoReturn)]_vars
    /\ [](Raised => ret = NoReturn)
    /\ [](pc = "returned" =>
            /\ idx = Len(phase2) + 1
            /\ \A j \in 1..Len(phase2) : Cardinality(MatchesOfRow(ret, j)) = 1)

\* a second row matches no entry after the first row set a rank: the run has
\* ended with the assertion failure and returned nothing
C1_Witness ==
    /\ pc = "match" /\ err.type = "AssertionError" /\ idx = 2
    /\ MatchesOfRow(rooms, 2) = {}
    /\ \E k \in 1..Len(rooms) : rooms[k].phase2_rank # NotRanked
    /\ ret = NoReturn

\* the tabular rows that reference the pair the duplicate terse entries share
PetraRows ==
    {j \in 1..Len(phase2) :
        \A k \in PetraEntries : PairOf(PartsOf[phase1[k].name]) = RowPair(j)}

\* C2: with exactly two terse entries of the duplicate display name and one
\* tabular row that references their pair, what get_rooms returns holds
\* exactly one entry of that display name, whose rank label is that row's rank
\* field; and get_rooms does return when that row is the whole tabular listing.
C2_DuplicateCollapse ==
    (Cardinality(PetraEntries) = 2 /\ Cardinality(PetraRows) = 1) =>
        /\ Len(phase2) = 1 => ~Raised
        /\ pc = "returned" =>
             LET P == {k \in 1..Len(ret) : ret[k].room_name_english = PetraLiteral}
             IN  /\ Cardinality(P) = 1
                 /\ \A k \in P : \A j \in PetraRows : ret[k].phase2_rank = phase2[j].rank

\* two duplicates and a third entry, one row for the duplicate: returned
C2_Witness ==
    /\ Cardinality(PetraEntries) = 2 /\ Cardinality(PetraRows) = 1
    /\ Len(phase1) = 3 /\ Len(phase2) = 1
    /\ pc = "returned"

\* C3 as stated: no two entries of what get_rooms returns share their
\* (display name, organizer) pair.
C3_AllPairsUnique ==
    pc = "returned" =>
        \A k, l \in 1..Len(ret) : PairOf(ret[k]) = PairOf(ret[l]) => k = l

\* C3, amended: no two entries of what get_rooms returns share a pair that a
\* tabular row's parsed pair equals; two entries that no row references may
\* carry the same pair, and both are returned.
C3_ReferencedPairsUnique ==
    pc = "returned" =>
        \A k, l \in 1..Len(ret) :
            (PairOf(ret[k]) = PairOf(ret[l]) /\ RowsOfEntry(ret[k], Len(phase2)) # {})
                => k = l

\* two rows, each referencing one of two returned entries
C3_Witness ==
    /\ pc = "returned"
    /\ Len(ret) = 2 /\ Len(phase2) = 2
    /\ RowPair(1) # RowPair(2)

C5_WrittenOnce ==
    (pc = "match" \/ pc = "returned") =>
        \A k \in 1..Len(rooms) :
            rank_writes[k] = IF RowsOfEntry(rooms[k], idx - 1) = {} THEN 0 ELSE 1

\* C5, amended: an entry is created with the label "Not ranked"; its rank
\* label is written once for each tabular row taken whose parsed pair equals
\* its pair (twice when two rows reference it, the later row's rank staying),
\* and never when no row does; no other field of an entry changes once it is
\* created.
C5_WrittenOncePerRow ==
    /\ [](pc = "build" =>
            \A k \in 1..Len(rooms) :
                rooms[k].phase2_rank = NotRanked /\ rank_writes[k] = 0)
    /\ []((pc = "match" \/ pc = "returned") =>
            \A k \in 1..Len(rooms) :
                /\ rank_writes[k] = Cardinality(RowsOfEntry(rooms[k], idx - 1))
                /\ rank_writes[k] = 0 => rooms[k].phase2_rank = NotRanked)
    /\ [][/\ pc = "match" => Unranked(rooms') = Unranked(rooms)
          /\ (pc = "build" /\ pc' = "build") =>
                SubSeq(rooms', 1, Len(rooms)) = rooms]_vars

\* an entry whose rank label two rows wrote
C5_Witness ==
    /\ pc = "returned"
    /\ \E k \in 1..Len(rooms) : rank_writes[k] = 2

\* C10: without a terse entry of the duplicate display name get_rooms fails
\* where it removes the duplicate, before it takes a tabular row, and returns
\* nothing; otherwise it removes the first such entry in document order and
\* keeps the others in their order, so that it returns one entry fewer than
\* the terse listing holds.
C10_RemovesFirstDuplicate ==
    /\ [](PetraEntries = {} =>
            /\ pc = "build" /\ ret = NoReturn
            /\ Raised => (err.type = "IndexError" /\ idx = Len(phase1) + 1))
    /\ [][(pc = "build" /\ ~Raised /\ idx = Len(phase1) + 1 /\ PetraEntries = {})
            => (Raised' /\ rooms' = rooms)]_vars
    /\ []((pc = "match" \/ pc = "returned") =>
            /\ PetraEntries # {}
            /\ Unranked(rooms) = RemoveAt(Created, MinOf(PetraEntries))
            /\ pc = "returned" => (ret = rooms /\ Len(ret) = Len(phase1) - 1))

\* the first of two duplicates, which differ, was removed and the entry
\* between them kept its place before the second
C10_Witness ==
    /\ pc = "returned"
    /\ Len(phase1) = 3 /\ Cardinality(PetraEntries) = 2
    /\ phase1[1] # phase1[3]
    /\ ret[1].room_name_english # PetraLiteral
    /\ ret[2].room_name_english = PetraLiteral

---------------------------------------------------------------------------
(* Claims about read_phase1, under SpecImport.                             *)

MarkersIn(ln) == {m \in TerrorMarkers : Contains(ln, <<m>>)}
LevelOf(m) ==
    CASE m = "U+2600" -> "None"
      [] m = "U+1F47B" -> "Spooky"
      [] m = "U+1F526" -> "Passively scary"
      [] m = "U+1F631" -> "Actively scary"

\* the terse lines read_phase1 has decoded: those it appended an entry for
\* and, when it raised, the one it raised on
Decoded == {k \in 1..Len(LinesOf(segments)) :
              k <= Len(phase1) \/ (pc = "read_phase1" /\ Raised /\ k = idx)}

\* C6 as stated: decoding a terse line that holds none of the four rating
\* markers fails with an error whose message holds the line verbatim, and
\* read_phase1 returns nothing; decoding a line that holds exactly one of them
\* gives the rating level of that marker.
C6_RatingMandatory ==
    \A k \in Decoded :
        LET ln == LinesOf(segments)[k]
        IN  /\ MarkersIn(ln) = {} =>
                /\ pc = "read_phase1" /\ Raised /\ idx = k
                /\ Contains(err.msg, ln)
            /\ Cardinality(MarkersIn(ln)) = 1 =>
                /\ k <= Len(phase1)
                /\ \A m \in MarkersIn(ln) : phase1[k].terror_level = LevelOf(m)

ScenarioLine == strip_segment(SegScenario)
ScenarioLayoutLine == strip_segment(SegScenarioLayout)
SpookyRoom == <<"S", "p", "o", "o", "k", "y", " ", "R", "o", "o", "m">>
Org == <<"O", "r", "g">>
Townsville == <<"T", "o", "w", "n", "s", "v", "i", "l", "l", "e">>
Twelve == <<"1", "2">>

\* the terse lines equal to ln that get_rooms has built an entry for
BuiltFrom(ln) ==
    {k \in 1..Len(LinesOf(segments)) :
        /\ LinesOf(segments)[k] = ln
        /\ pc = "build" /\ k <= Len(rooms)}

---------------------------------------------------------------------------
(* Claims about parse_name, under SpecName.                                *)

\* C8 as stated: "Foo Bar [Foo Baz] - Acme Co (Springfield)" splits to the
\* display name "Foo Bar", without a space before or after it, the original
\* name "Foo Baz", the organizer "Acme Co" and the location "Springfield".
C8_FooBar ==
    (pc = "parsed" /\ line = <<"F", "o", "o", " ", "B", "a", "r", " ", "[", "F", "o", "o",
                               " ", "B", "a", "z", "]", " ", "-", " ", "A", "c", "m", "e",
                               " ", "C", "o", " ", "(", "S", "p", "r", "i", "n", "g", "f",
                               "i", "e", "l", "d", ")">>) =>
        parsed = [room_name_english |-> FooBar,
                  room_name_original |-> FooBaz,
                  company_name |-> AcmeCo,
                  location |-> Springfield]

\* C9 as stated: every "<Name> - Escape Stories - Live Escape Game Wuppertal
\* (<Location>)" splits to that organizer in full, the display name <Name> and
\* the location <Location>.
C9_WuppertalOrganizer ==
    (/\ pc = "parsed"
     /\ shape.name \in PlainNames
     /\ shape.original = None
     /\ shape.organizer = WuppertalOrganizer) =>
        /\ parsed.company_name = WuppertalOrganizer
        /\ parsed.room_name_english = shape.name
        /\ parsed.location = shape.location

============================================================================
